---- MODULE Spec2Model ----
(***************************************************************************)
(* Model of scripts/migrate_turso_db_names.py: the fleet driver (main),    *)
(* the per-project planner/executor (migrate_project), the control-plane   *)
(* calls (check/create/delete), the data-plane copier (copy_turso_data)    *)
(* and the catalog update (update_project_turso_credentials).              *)
(*                                                                         *)
(* Every action is one remote call of the script together with the local   *)
(* code that follows it up to the next remote call.  The process can be    *)
(* terminated between any two remote calls (Crash) and the script can be   *)
(* started again (Start), any number of times.                             *)
(*                                                                         *)
(* Environment: the control plane answers an existence GET truthfully      *)
(* (200 iff the database exists) or the request raises; a create POST for  *)
(* a name that exists is rejected; nobody but this script creates or       *)
(* deletes databases or writes the projects table while it runs (Spec).    *)
(*                                                                         *)
(* SpecCopy is copy_turso_data alone, on source databases of several       *)
(* tables.  SpecExternal is Spec with a second client of the control plane *)
(* and of the old database at work during a migration: it deletes the old  *)
(* database or drops one of its tables.  SpecFix is the model of           *)
(* scripts/fix_stale_deployments.py.                                       *)
(***************************************************************************)
EXTENDS Naturals, Sequences, FiniteSets

\* ---------------------------------------------------------------- bounds
NumProjects == 2
MaxRows == 1
\* SpecCopy: tables of a source database, rows of a table
MaxTables == 3
MaxCopyRows == 2
\* SpecBatch: rows of the one table of the source
MaxBatchRows == 201
\* SpecFix: rows of the deployments table
NumDeployments == 2

\* ------------------------------------------------------ program constants
batch_size == 100

\* ------------------------------------------------------------ value model
NULL == <<>>

ProjectIds == 1 .. NumProjects

\* projects.id and projects.slug are different columns; ids and slugs are
\* drawn from disjoint domains, so all database names are pairwise distinct.
IdOf(p) == <<"id", p>>
SlugOf(p) == <<"slug", p>>

old_db_name(slug) == <<"liteshow">> \o slug
new_db_name(project_id) == <<"liteshow">> \o project_id

OldName(p) == old_db_name(SlugOf(p))
NewName(p) == new_db_name(IdOf(p))

\* data['database']['Hostname'] and token_data['jwt'] as issued for a name
Hostname(db_name) == <<"host">> \o db_name
Jwt(db_name) == <<"jwt">> \o db_name
Elsewhere == <<"host", "elsewhere">>

\* the tables of a legacy database, in sqlite_master order
\* a table is its name, its columns as its CREATE statement gives them, and
\* its rows, each the values of the columns in that order
OldDbTables ==
    << [name |-> "sqlite_sequence", columns |-> << "name", "seq" >>,
        rows |-> << <<"sqlite_sequence", 1>> >>],
       [name |-> "t1", columns |-> << "c1", "c2" >>,
        rows |-> [k \in 1 .. MaxRows |-> <<"t1", k>>]] >>


\* -------------------------------------------------------------- variables
VARIABLES
    dbs,            \* control plane: the set of database names that exist
    projects,       \* catalog: projects table, id -> [slug, turso_db_url, turso_db_token]
    new_tables,     \* data plane: id -> tables the copier wrote into liteshow-{id}
    pc,             \* position of the script
    dry_run,        \* main: '--dry-run' in sys.argv
    fetched,        \* main: projects, the list returned by get_all_projects
    i,              \* main: index of the project being migrated
    success_count,  \* main
    skip_count,     \* main
    fail_count,     \* main
    plans,          \* number of '[DRY RUN] Would ...' plans printed in this run
    mp,             \* migrate_project: old_exists, new_exists, new_url, new_token, copy_success
    cp,             \* copy_turso_data: tables, t (table index), rows, r (row index)
    unit,           \* the call of migrate_project in progress, or else the last one:
                    \* project, databases found, mutating calls issued, what
                    \* copy_turso_data returned, closing line
    completed,      \* id -> 'Migration complete' was printed for the project, in any run
    old_tables,     \* data plane: old database name -> its tables, in sqlite_master order
    env,            \* os.getenv: TURSO_API_TOKEN, DATABASE_URL are set for the run
    \* fix_stale_deployments.py
    deployments,    \* deployments table as committed: id -> row
    project_rows,   \* projects table: id -> [deployment_status, deployment_url, last_deployed_at]
    fix_pc,         \* position of the script
    fix_project_id, \* sys.argv[1], or NULL
    fix_projects,   \* projects = cur.fetchall()
    fix_p,          \* index of the project in the loop
    in_progress_deployments,    \* cur.fetchall() for the project
    fix_d,          \* index of the deployment in the loop
    tx,             \* deployments table as the open transaction sees it
    fix_updated,    \* number of UPDATE statements of this run that were committed
    fix_rerun       \* this run follows a run that ended with 'Done' or 'No projects
                    \* found' and had the same argument, or none

migvars == << dbs, projects, new_tables, pc, dry_run, fetched, i,
              success_count, skip_count, fail_count, plans, mp, cp, unit, completed,
              old_tables, env >>

fixvars == << deployments, project_rows, fix_pc, fix_project_id, fix_projects, fix_p,
              in_progress_deployments, fix_d, tx, fix_updated, fix_rerun >>

vars == << migvars, fixvars >>

Ids == { IdOf(p) : p \in ProjectIds }
AllNames == { OldName(p) : p \in ProjectIds } \cup { NewName(p) : p \in ProjectIds }

NoLocals == [old_exists |-> FALSE, new_exists |-> FALSE, new_url |-> NULL,
             new_token |-> NULL, copy_success |-> FALSE]
NoCopy == [tables |-> << >>, t |-> 0, create_sql |-> << >>, columns |-> << >>,
           rows |-> << >>, r |-> 0]
NoCalls == [create |-> 0, token |-> 0, write |-> 0, update |-> 0, delete |-> 0]
NoUnit == [project_id |-> NULL, quadrant |-> << >>, calls |-> NoCalls,
           no_schema |-> FALSE, copied |-> "none",
           delete_name |-> NULL, delete_status |-> 0, delete_said |-> "none",
           outcome |-> "none"]

\* the stored location of a project before the script ever ran
InitialLocations(p) ==
    { [url |-> NULL, token |-> NULL],
      [url |-> Hostname(OldName(p)), token |-> Jwt(OldName(p))],
      [url |-> Hostname(NewName(p)), token |-> Jwt(NewName(p))],
      [url |-> Elsewhere, token |-> <<"jwt", "elsewhere">>] }

\* the fix script at rest, on empty tables
FixIdle ==
    /\ deployments = << >>
    /\ project_rows = [id \in Ids |-> [deployment_status |-> "not_deployed",
                                       deployment_url |-> NULL,
                                       last_deployed_at |-> NULL]]
    /\ fix_pc = "idle"
    /\ fix_project_id = NULL
    /\ fix_projects = << >>
    /\ fix_p = 0
    /\ in_progress_deployments = << >>
    /\ fix_d = 0
    /\ tx = << >>
    /\ fix_updated = 0
    /\ fix_rerun = FALSE

\* the fleet before the migration script runs
MigrateInit ==
    /\ dbs \in SUBSET AllNames
    /\ \E loc \in [ProjectIds -> UNION { InitialLocations(p) : p \in ProjectIds }] :
          /\ \A p \in ProjectIds : loc[p] \in InitialLocations(p)
          /\ projects = [id \in Ids |->
                LET p == id[2] IN
                [slug |-> SlugOf(p), turso_db_url |-> loc[p].url,
                 turso_db_token |-> loc[p].token]]
    /\ new_tables = [id \in Ids |-> << >>]
    /\ pc = "idle"
    /\ dry_run = FALSE
    /\ fetched = << >>
    /\ i = 0
    /\ success_count = 0
    /\ skip_count = 0
    /\ fail_count = 0
    /\ plans = 0
    /\ mp = NoLocals
    /\ cp = NoCopy
    /\ unit = NoUnit
    /\ completed = [id \in Ids |-> FALSE]
    /\ old_tables = [p \in ProjectIds |-> OldDbTables]
    /\ env = [TURSO_API_TOKEN |-> TRUE, DATABASE_URL |-> TRUE]

Init == MigrateInit /\ FixIdle

\* ------------------------------------------------------------ the catalog
\* SELECT id, name, slug, turso_db_url, turso_db_token ... ORDER BY created_at
\* (the display name is only printed and is left out of the tuple)
RECURSIVE SelectProjects(_)
SelectProjects(n) ==
    IF n = 0 THEN << >>
    ELSE Append(SelectProjects(n - 1),
                [project_id |-> IdOf(n), slug |-> projects[IdOf(n)].slug,
                 old_url |-> projects[IdOf(n)].turso_db_url,
                 old_token |-> projects[IdOf(n)].turso_db_token])

\* the project tuple migrate_project is working on
Cur == fetched[i]

\* ------------------------------------------------------- control plane
\* requests.get(...).status_code for a database name
GetStatus(db_name) == IF db_name \in dbs THEN 200 ELSE 404

check_turso_db_exists(db_name) == GetStatus(db_name) = 200

\* the status codes the control plane can answer a DELETE with
DeleteStatus(db_name) == IF db_name \in dbs THEN {200, 500} ELSE {404}

\* requests.Response.ok
ResponseOk(status_code) == status_code < 400

\* delete_turso_db with the warning printed for every response that is not ok
DeleteWarnsOnAbsent(status_code) ==
    IF ~ResponseOk(status_code) THEN "warning" ELSE "nothing"

\* what delete_turso_db prints for a response before it returns None
delete_turso_db(status_code) ==
    IF ~ResponseOk(status_code) /\ status_code # 404 THEN "warning" ELSE "nothing"

\* ------------------------------------------------ migrate_project: plan
\* Decide with the stored location tested before the existence of the new
\* database: a project without a location is 'no database' whatever exists
DecideLocationFirst(old_exists, new_exists, old_url, dry) ==
    IF ~old_exists
    THEN IF old_url = NULL THEN "no_database"
         ELSE IF new_exists THEN "already_migrated"
         ELSE "manual_review"
    ELSE IF new_exists THEN "naming_conflict"
    ELSE IF dry THEN "would_migrate"
    ELSE "migrate"

\* Decide trusting the stored location in a naming conflict: a record that
\* points at the new database is taken as 'already migrated'
DecideTrustsLocation(old_exists, new_exists, old_url, dry) ==
    IF ~old_exists
    THEN IF ~new_exists /\ old_url = NULL THEN "no_database"
         ELSE IF new_exists THEN "already_migrated"
         ELSE "manual_review"
    ELSE IF new_exists
         THEN IF old_url # NULL /\ old_url[Len(old_url) - 1] = "id"
              THEN "already_migrated" ELSE "naming_conflict"
    ELSE IF dry THEN "would_migrate"
    ELSE "migrate"

\* Decide without the dry-run branch: the plan is carried out
DecideIgnoresDryRun(old_exists, new_exists, old_url, dry) ==
    IF ~old_exists
    THEN IF ~new_exists /\ old_url = NULL THEN "no_database"
         ELSE IF new_exists THEN "already_migrated"
         ELSE "manual_review"
    ELSE IF new_exists THEN "naming_conflict"
    ELSE "migrate"

\* Decide re-creating a database that is missing under both names when the
\* record has a location
DecideRecreatesMissing(old_exists, new_exists, old_url, dry) ==
    IF ~old_exists
    THEN IF ~new_exists /\ old_url = NULL THEN "no_database"
         ELSE IF new_exists THEN "already_migrated"
         ELSE IF dry THEN "manual_review" ELSE "migrate"
    ELSE IF new_exists THEN "naming_conflict"
    ELSE IF dry THEN "would_migrate"
    ELSE "migrate"

\* Decide with the dry-run branch ahead of the existence tests: a dry run
\* plans a migration for every project
DecideDryRunFirst(old_exists, new_exists, old_url, dry) ==
    IF dry THEN "would_migrate"
    ELSE IF ~old_exists
    THEN IF ~new_exists /\ old_url = NULL THEN "no_database"
         ELSE IF new_exists THEN "already_migrated"
         ELSE "manual_review"
    ELSE IF new_exists THEN "naming_conflict"
    ELSE "migrate"

\* Decide taking a project whose new database exists and whose old one does
\* not through the migration path again
DecideCopiesAgain(old_exists, new_exists, old_url, dry) ==
    IF ~old_exists
    THEN IF ~new_exists /\ old_url = NULL THEN "no_database"
         ELSE IF new_exists THEN IF dry THEN "already_migrated" ELSE "migrate"
         ELSE "manual_review"
    ELSE IF new_exists THEN "naming_conflict"
    ELSE IF dry THEN "would_migrate"
    ELSE "migrate"

\* the branch migrate_project takes once both existence checks returned
Decide(old_exists, new_exists, old_url, dry) ==
    IF ~old_exists
    THEN IF ~new_exists /\ old_url = NULL THEN "no_database"
         ELSE IF new_exists THEN "already_migrated"
         ELSE "manual_review"
    ELSE IF new_exists THEN "naming_conflict"
    ELSE IF dry THEN "would_migrate"
    ELSE "migrate"

\* 'Migration failed: {e}', told apart by the step that raised e
Failures == {"failed_create", "failed_token", "failed_update", "failed_delete"}

\* the value migrate_project returns after printing the closing line
ReturnValue(line) ==
    line \in {"no_database", "already_migrated", "would_migrate", "complete"}

\* one more remote call of kind k issued for the current project
Called(k) == [unit EXCEPT !.calls[k] = @ + 1]

\* ------------------------------------------------------------------ main
\* migrate_project prints its closing line and returns: main counts the
\* result and moves on to the next project, or to the summary
Return(line, u) ==
    /\ unit' = [u EXCEPT !.outcome = line]
    /\ completed' = IF line = "complete"
                    THEN [completed EXCEPT ![Cur.project_id] = TRUE]
                    ELSE completed
    /\ success_count' = IF ReturnValue(line) THEN success_count + 1 ELSE success_count
    /\ skip_count' = IF ReturnValue(line) THEN skip_count ELSE skip_count + 1
    /\ fail_count' = fail_count
    /\ plans' = IF line = "would_migrate" THEN plans + 1 ELSE plans
    /\ i' = i + 1
    /\ pc' = IF i = Len(fetched) THEN "summary" ELSE "check_old"
    /\ mp' = NoLocals
    /\ cp' = NoCopy

\* a step inside migrate_project: main's variables stay as they are
Inside == UNCHANGED << i, success_count, skip_count, fail_count, plans, completed >>

\* a step of the migration script: the source tables, the environment and
\* the deployments are not its business
Untouched == UNCHANGED << old_tables, env >> /\ UNCHANGED fixvars

Stopped == {"idle", "done", "exited", "uncaught", "crashed"}

\* get_turso_credentials and get_all_projects with only the token required
ConfigOkTokenOnly(e) == e.TURSO_API_TOKEN

\* get_turso_credentials and get_all_projects find what they need
ConfigOk(e) == e.TURSO_API_TOKEN /\ e.DATABASE_URL

\* main up to the loop: credentials, project list, counters
Start ==
    /\ pc \in Stopped
    /\ unit' = NoUnit
    /\ mp' = NoLocals
    /\ cp' = NoCopy
    /\ success_count' = 0
    /\ skip_count' = 0
    /\ fail_count' = 0
    /\ plans' = 0
    /\ \E e \in [TURSO_API_TOKEN : BOOLEAN, DATABASE_URL : BOOLEAN] : env' = e
    /\ \/ \* TURSO_API_TOKEN or DATABASE_URL missing, or the query fails:
          \* sys.exit(1), the process and its memory are gone
          /\ pc' = "exited"
          /\ dry_run' = FALSE
          /\ fetched' = << >>
          /\ i' = 0
       \/ /\ ConfigOk(env')
          /\ \E dry \in BOOLEAN : dry_run' = dry
          /\ fetched' = SelectProjects(NumProjects)
          /\ i' = 1
          /\ pc' = IF Len(fetched') = 0 THEN "summary" ELSE "check_old"
    /\ UNCHANGED << dbs, projects, new_tables, completed, old_tables >>
    /\ UNCHANGED fixvars

\* old_exists = check_turso_db_exists(old_db_name, ...)
CheckOld ==
    /\ pc = "check_old"
    /\ \/ \* requests.get raises: nothing catches it, the script dies
          /\ pc' = "uncaught"
          /\ UNCHANGED << mp, unit >>
       \/ /\ mp' = [mp EXCEPT !.old_exists = check_turso_db_exists(old_db_name(Cur.slug))]
          /\ unit' = [NoUnit EXCEPT !.project_id = Cur.project_id]
          /\ pc' = "check_new"
    /\ Inside
    /\ UNCHANGED << dbs, projects, new_tables, dry_run, fetched, cp >>
    /\ Untouched

\* new_exists = check_turso_db_exists(new_db_name, ...) and the branches on it
CheckNew ==
    /\ pc = "check_new"
    /\ \/ /\ pc' = "uncaught"
          /\ mp' = NoLocals
          /\ UNCHANGED << cp, unit >>
          /\ Inside
       \/ LET ne == check_turso_db_exists(new_db_name(Cur.project_id))
              branch == Decide(mp.old_exists, ne, Cur.old_url, dry_run)
              u == [unit EXCEPT !.quadrant = << old_db_name(Cur.slug) \in dbs,
                                                new_db_name(Cur.project_id) \in dbs >>]
          IN  IF branch = "migrate"
              THEN /\ mp' = [mp EXCEPT !.new_exists = ne]
                   /\ unit' = u
                   /\ pc' = "create_db"
                   /\ UNCHANGED cp
                   /\ Inside
              ELSE Return(branch, u)
    /\ UNCHANGED << dbs, projects, new_tables, dry_run, fetched >>
    /\ Untouched

\* ------------------------------------------------ migrate_project: step 1
\* create_turso_db, the POST that creates the database
CreateDb ==
    /\ pc = "create_db"
    /\ \/ \* not response.ok, or the request raises: the except branch
          /\ Return("failed_create", Called("create"))
          /\ UNCHANGED dbs
       \/ /\ new_db_name(Cur.project_id) \notin dbs
          /\ dbs' = dbs \cup { new_db_name(Cur.project_id) }
          /\ unit' = Called("create")
          /\ pc' = "create_token"
          /\ UNCHANGED << mp, cp >>
          /\ Inside
    /\ UNCHANGED << projects, new_tables, dry_run, fetched >>
    /\ Untouched

\* CreateToken returning the hostname the project had: the token is that of
\* the new database, the location that of the old one
CreateTokenOldHostname ==
    /\ pc = "create_token"
    /\ \/ Return("failed_token", Called("token"))
       \/ /\ mp' = [mp EXCEPT !.new_url = Hostname(old_db_name(Cur.slug)),
                              !.new_token = Jwt(new_db_name(Cur.project_id))]
          /\ unit' = Called("token")
          /\ pc' = "copy"
          /\ UNCHANGED cp
          /\ Inside
    /\ UNCHANGED << dbs, projects, new_tables, dry_run, fetched >>
    /\ Untouched

\* create_turso_db, the POST that issues the access token
CreateToken ==
    /\ pc = "create_token"
    /\ \/ Return("failed_token", Called("token"))
       \/ /\ mp' = [mp EXCEPT !.new_url = Hostname(new_db_name(Cur.project_id)),
                              !.new_token = Jwt(new_db_name(Cur.project_id))]
          /\ unit' = Called("token")
          /\ pc' = "copy"
          /\ UNCHANGED cp
          /\ Inside
    /\ UNCHANGED << dbs, projects, new_tables, dry_run, fetched >>
    /\ Untouched

\* ----------------------------------------------------- copy_turso_data
\* the database a libsql URL leads to, if any
SourceDb(url) == { n \in dbs : Hostname(n) = url }

\* sqlite_master and the rows of the database named n
TablesOf(n) ==
    IF n[2] = "slug" THEN old_tables[n[3]] ELSE new_tables[SubSeq(n, 2, 3)]

\* the listing with sqlite_sequence copied like any other table
RECURSIVE TableNamesUnfiltered(_)
TableNamesUnfiltered(tabs) ==
    IF tabs = << >> THEN << >>
    ELSE << Head(tabs).name >> \o TableNamesUnfiltered(Tail(tabs))

\* the listing worked through from its last table to its first
RECURSIVE TableNamesReversed(_)
TableNamesReversed(tabs) ==
    IF tabs = << >> THEN << >>
    ELSE IF Head(tabs).name # "sqlite_sequence"
         THEN TableNamesReversed(Tail(tabs)) \o << Head(tabs).name >>
         ELSE TableNamesReversed(Tail(tabs))

\* tables = [row['name'] for row in result.rows if row['name'] != 'sqlite_sequence']
RECURSIVE TableNames(_)
TableNames(tabs) ==
    IF tabs = << >> THEN << >>
    ELSE IF Head(tabs).name # "sqlite_sequence"
         THEN << Head(tabs).name >> \o TableNames(Tail(tabs))
         ELSE TableNames(Tail(tabs))

\* SELECT sql FROM sqlite_master WHERE type='table' AND name='{table}':
\* the rows of the result, each the CREATE statement of a table
RECURSIVE SchemaRows(_, _)
SchemaRows(tabs, name) ==
    IF tabs = << >> THEN << >>
    ELSE IF Head(tabs).name = name
         THEN << [name |-> Head(tabs).name, columns |-> Head(tabs).columns] >>
              \o SchemaRows(Tail(tabs), name)
         ELSE SchemaRows(Tail(tabs), name)

\* SELECT * FROM {table}
RowsOf(tabs, name) ==
    IF \E k \in 1 .. Len(tabs) : tabs[k].name = name
    THEN tabs[CHOOSE k \in 1 .. Len(tabs) : tabs[k].name = name].rows
    ELSE << >>

\* list(data_result.rows[0].keys())
KeysOf(tabs, name) ==
    tabs[CHOOSE k \in 1 .. Len(tabs) : tabs[k].name = name].columns

\* the loop over batches with the next batch begun one row too late
RECURSIVE InsertOrderSkipsAtBoundary(_, _)
InsertOrderSkipsAtBoundary(rows, start) ==
    IF start >= Len(rows) THEN << >>
    ELSE LET stop == IF start + batch_size < Len(rows)
                     THEN start + batch_size ELSE Len(rows)
         IN  SubSeq(rows, start + 1, stop)
             \o InsertOrderSkipsAtBoundary(rows, start + batch_size + 1)

\* for i in range(0, len(rows), batch_size): batch = rows[i:i + batch_size]
RECURSIVE InsertOrder(_, _)
InsertOrder(rows, start) ==
    IF start >= Len(rows) THEN << >>
    ELSE LET stop == IF start + batch_size < Len(rows)
                     THEN start + batch_size ELSE Len(rows)
         IN  SubSeq(rows, start + 1, stop) \o InsertOrder(rows, start + batch_size)

\* the place of a column in a list of columns
Position(columns, col) == CHOOSE k \in 1 .. Len(columns) : columns[k] = col

\* values = [row[col] for col in columns], row being keyed by keys
ValuesOf(row, keys, columns) ==
    [k \in 1 .. Len(columns) |-> row[Position(keys, columns[k])]]

\* INSERT INTO {table} ({column_names}) VALUES ({placeholders}) in the
\* destination: each value goes to the column it is named for
AddRow(tabs, name, columns, values) ==
    [k \in 1 .. Len(tabs) |->
        IF tabs[k].name = name
        THEN [tabs[k] EXCEPT !.rows = Append(@,
                 [j \in 1 .. Len(tabs[k].columns) |->
                     IF \E c \in 1 .. Len(columns) : columns[c] = tabs[k].columns[j]
                     THEN values[Position(columns, tabs[k].columns[j])]
                     ELSE NULL])]
        ELSE tabs[k]]

\* CopyReturn with a failed copy tried again instead of passed over
CopyReturnRetries(ok, u) ==
    /\ mp' = [mp EXCEPT !.copy_success = ok]
    /\ unit' = [u EXCEPT !.copied = IF ok THEN "yes" ELSE "no"]
    /\ cp' = NoCopy
    /\ pc' = IF ok THEN "update" ELSE "copy"

\* copy_turso_data returns; migrate_project prints the result and goes on
CopyReturn(ok, u) ==
    /\ mp' = [mp EXCEPT !.copy_success = ok]
    /\ unit' = [u EXCEPT !.copied = IF ok THEN "yes" ELSE "no"]
    /\ cp' = NoCopy
    /\ pc' = "update"

\* the loop over tables moves to the next table, or the copy is done
NextTable(u) ==
    IF cp.t = Len(cp.tables)
    THEN CopyReturn(TRUE, u)
    ELSE /\ cp' = [cp EXCEPT !.t = @ + 1, !.create_sql = << >>, !.columns = << >>,
                             !.rows = << >>, !.r = 0]
         /\ unit' = u
         /\ pc' = "copy_schema"
         /\ UNCHANGED mp

\* import, create_client twice, and the listing of the source's tables
CopyList ==
    /\ pc = "copy"
    /\ \/ \* ImportError, or the listing raises
          CopyReturn(FALSE, unit)
       \/ \E n \in SourceDb(Cur.old_url) :
            LET names == TableNames(TablesOf(n))
            IN  IF names = << >>
                THEN CopyReturn(TRUE, unit)
                ELSE /\ cp' = [NoCopy EXCEPT !.tables = names, !.t = 1]
                     /\ pc' = "copy_schema"
                     /\ UNCHANGED << mp, unit >>
    /\ Inside
    /\ UNCHANGED << dbs, projects, new_tables, dry_run, fetched >>
    /\ Untouched

\* SELECT sql FROM sqlite_master WHERE type='table' AND name='{table}'
CopySchema ==
    /\ pc = "copy_schema"
    /\ \/ \* the query raises
          CopyReturn(FALSE, unit)
       \/ \E n \in SourceDb(Cur.old_url) :
            LET schema_result == SchemaRows(TablesOf(n), cp.tables[cp.t])
            IN  IF schema_result # << >>
                THEN /\ cp' = [cp EXCEPT !.create_sql = schema_result[1]]
                     /\ pc' = "copy_create"
                     /\ UNCHANGED << mp, unit >>
                ELSE \* the table is passed over in silence
                     NextTable([unit EXCEPT !.no_schema = TRUE])
    /\ Inside
    /\ UNCHANGED << dbs, projects, new_tables, dry_run, fetched >>
    /\ Untouched

\* new_client.execute(create_sql)
CopyCreateTable ==
    /\ pc = "copy_create"
    /\ \/ /\ CopyReturn(FALSE, Called("write"))
          /\ UNCHANGED new_tables
       \/ /\ \A k \in 1 .. Len(new_tables[Cur.project_id]) :
                new_tables[Cur.project_id][k].name # cp.create_sql.name
          /\ new_tables' = [new_tables EXCEPT ![Cur.project_id] =
                               Append(@, [name |-> cp.create_sql.name,
                                          columns |-> cp.create_sql.columns,
                                          rows |-> << >>])]
          /\ unit' = Called("write")
          /\ pc' = "copy_select"
          /\ UNCHANGED << mp, cp >>
    /\ Inside
    /\ UNCHANGED << dbs, projects, dry_run, fetched >>
    /\ Untouched

\* data_result = old_client.execute(f"SELECT * FROM {table}")
CopySelect ==
    /\ pc = "copy_select"
    /\ \/ \* the query raises, as it does for a table that is not there
          CopyReturn(FALSE, unit)
       \/ \E n \in SourceDb(Cur.old_url) :
            /\ SchemaRows(TablesOf(n), cp.tables[cp.t]) # << >>
            /\ LET rows == RowsOf(TablesOf(n), cp.tables[cp.t])
               IN  IF rows = << >>
                   THEN NextTable(unit)
                   ELSE /\ cp' = [cp EXCEPT
                                    !.columns = KeysOf(TablesOf(n), cp.tables[cp.t]),
                                    !.rows = InsertOrder(rows, 0), !.r = 1]
                        /\ pc' = "copy_insert"
                        /\ UNCHANGED << mp, unit >>
    /\ Inside
    /\ UNCHANGED << dbs, projects, new_tables, dry_run, fetched >>
    /\ Untouched

\* CopyInsert with a row that cannot be inserted left out and the copy going on
CopyInsertSkipsRow ==
    /\ pc = "copy_insert"
    /\ \/ UNCHANGED new_tables
       \/ new_tables' = [new_tables EXCEPT ![Cur.project_id] =
                            AddRow(@, cp.tables[cp.t], cp.columns,
                                   ValuesOf(cp.rows[cp.r], cp.columns, cp.columns))]
    /\ IF cp.r = Len(cp.rows)
       THEN NextTable(Called("write"))
       ELSE /\ cp' = [cp EXCEPT !.r = @ + 1]
            /\ unit' = Called("write")
            /\ UNCHANGED << mp, pc >>
    /\ Inside
    /\ UNCHANGED << dbs, projects, dry_run, fetched >>
    /\ Untouched

\* new_client.execute(insert_sql, values) for one row
CopyInsert ==
    /\ pc = "copy_insert"
    /\ \/ /\ CopyReturn(FALSE, Called("write"))
          /\ UNCHANGED new_tables
       \/ /\ new_tables' = [new_tables EXCEPT ![Cur.project_id] =
                               AddRow(@, cp.tables[cp.t], cp.columns,
                                      ValuesOf(cp.rows[cp.r], cp.columns, cp.columns))]
          /\ IF cp.r = Len(cp.rows)
             THEN NextTable(Called("write"))
             ELSE /\ cp' = [cp EXCEPT !.r = @ + 1]
                  /\ unit' = Called("write")
                  /\ UNCHANGED << mp, pc >>
    /\ Inside
    /\ UNCHANGED << dbs, projects, dry_run, fetched >>
    /\ Untouched

\* ------------------------------------------- migrate_project: steps 3, 4
\* UpdateRecord with the exception of the update swallowed: the old
\* database is deleted although the record was not written
UpdateRecordSwallowsError ==
    /\ pc = "update"
    /\ \/ UNCHANGED projects
       \/ projects' = [projects EXCEPT
                          ![Cur.project_id].turso_db_url = mp.new_url,
                          ![Cur.project_id].turso_db_token = mp.new_token]
    /\ unit' = Called("update")
    /\ pc' = "delete"
    /\ UNCHANGED << mp, cp >>
    /\ Inside
    /\ UNCHANGED << dbs, new_tables, dry_run, fetched >>
    /\ Untouched

\* UpdateRecord with the endpoint written and the credential left as it was
UpdateRecordUrlOnly ==
    /\ pc = "update"
    /\ \/ /\ Return("failed_update", Called("update"))
          /\ UNCHANGED projects
       \/ /\ projects' = [projects EXCEPT
                             ![Cur.project_id].turso_db_url = mp.new_url]
          /\ unit' = Called("update")
          /\ pc' = "delete"
          /\ UNCHANGED << mp, cp >>
          /\ Inside
    /\ UNCHANGED << dbs, new_tables, dry_run, fetched >>
    /\ Untouched

\* update_project_turso_credentials(project_id, new_url, new_token)
UpdateRecord ==
    /\ pc = "update"
    /\ \/ \* psycopg2 raises, the function re-raises: the except branch
          /\ Return("failed_update", Called("update"))
          /\ UNCHANGED projects
       \/ /\ projects' = [projects EXCEPT
                             ![Cur.project_id].turso_db_url = mp.new_url,
                             ![Cur.project_id].turso_db_token = mp.new_token]
          /\ unit' = Called("update")
          /\ pc' = "delete"
          /\ UNCHANGED << mp, cp >>
          /\ Inside
    /\ UNCHANGED << dbs, new_tables, dry_run, fetched >>
    /\ Untouched

\* step 4 with the database of step 1 as the one to delete
DeleteTargetNew == new_db_name(Cur.project_id)

\* delete_turso_db(old_db_name, api_token, org): the database step 4 names
DeleteTarget == old_db_name(Cur.slug)

\* delete_turso_db never raises on a response: it prints a warning at most,
\* and migrate_project goes on to 'Old database deleted', 'Migration complete'
DeleteOld ==
    /\ pc = "delete"
    /\ \/ \* requests.delete raises: the except branch
          /\ Return("failed_delete",
                    [Called("delete") EXCEPT !.delete_name = DeleteTarget])
          /\ UNCHANGED dbs
       \/ \E status \in DeleteStatus(DeleteTarget) :
          /\ dbs' = IF status = 200 THEN dbs \ { DeleteTarget } ELSE dbs
          /\ Return("complete", [Called("delete") EXCEPT
                                    !.delete_name = DeleteTarget,
                                    !.delete_status = status,
                                    !.delete_said = delete_turso_db(status)])
    /\ UNCHANGED << projects, new_tables, dry_run, fetched >>
    /\ Untouched

\* ------------------------------------------------------------------ main
\* the summary is printed and the script ends with exit code 0
Summary ==
    /\ pc = "summary"
    /\ pc' = "done"
    /\ UNCHANGED << dbs, projects, new_tables, dry_run, fetched, i,
                    success_count, skip_count, fail_count, plans, mp, cp, unit,
                    completed >>
    /\ Untouched

\* the process is terminated between two remote calls; its memory is gone
Crash ==
    /\ pc \notin Stopped
    /\ pc' = "crashed"
    /\ mp' = NoLocals
    /\ cp' = NoCopy
    /\ fetched' = << >>
    /\ i' = 0
    /\ success_count' = 0
    /\ skip_count' = 0
    /\ fail_count' = 0
    /\ plans' = 0
    /\ unit' = NoUnit
    /\ dry_run' = FALSE
    /\ UNCHANGED << dbs, projects, new_tables, completed >>
    /\ Untouched

Next ==
    \/ Start
    \/ CheckOld
    \/ CheckNew
    \/ CreateDb
    \/ CreateToken
    \/ CopyList
    \/ CopySchema
    \/ CopyCreateTable
    \/ CopySelect
    \/ CopyInsert
    \/ UpdateRecord
    \/ DeleteOld
    \/ Summary
    \/ Crash

Spec == Init /\ [][Next]_vars

\* ------------------------------------------- copy_turso_data on its own
\* the tables a source database can have, in sqlite_master order
TableOrder == << "t1", "sqlite_sequence", "t2", "t3", "t4" >>

\* the rows a table can hold: two columns, values that tell the columns apart
RowPool == { << "a", "b" >>, << "b", "a" >> }
RowSeqs == UNION { [1 .. n -> RowPool] : n \in 0 .. MaxCopyRows }

\* the source database that has the tables of TableOrder numbered in
\* present, up to number k, with the rows content gives them
RECURSIVE SourceTables(_, _, _)
SourceTables(k, present, content) ==
    IF k = 0 THEN << >>
    ELSE IF k \in present
         THEN Append(SourceTables(k - 1, present, content),
                     [name |-> TableOrder[k],
                      columns |-> IF TableOrder[k] = "sqlite_sequence"
                                  THEN << "name", "seq" >> ELSE << "c1", "c2" >>,
                      rows |-> content[k]])
         ELSE SourceTables(k - 1, present, content)

\* migrate_project has created liteshow-{id} for the first project and calls
\* copy_turso_data: the new database is empty
AtCopy ==
    /\ FixIdle
    /\ dbs = { OldName(p) : p \in ProjectIds } \cup { NewName(1) }
    /\ projects = [id \in Ids |->
          [slug |-> SlugOf(id[2]), turso_db_url |-> Hostname(OldName(id[2])),
           turso_db_token |-> Jwt(OldName(id[2]))]]
    /\ new_tables = [id \in Ids |-> << >>]
    /\ pc = "copy"
    /\ dry_run = FALSE
    /\ fetched = SelectProjects(NumProjects)
    /\ i = 1
    /\ success_count = 0
    /\ skip_count = 0
    /\ fail_count = 0
    /\ plans = 0
    /\ mp = [NoLocals EXCEPT !.old_exists = TRUE,
                             !.new_url = Hostname(NewName(1)),
                             !.new_token = Jwt(NewName(1))]
    /\ cp = NoCopy
    /\ unit = [NoUnit EXCEPT !.project_id = IdOf(1),
                             !.quadrant = << TRUE, FALSE >>,
                             !.calls = [NoCalls EXCEPT !.create = 1, !.token = 1]]
    /\ completed = [id \in Ids |-> FALSE]
    /\ env = [TURSO_API_TOKEN |-> TRUE, DATABASE_URL |-> TRUE]

\* the copy of a source database of up to MaxTables tables
InitCopy ==
    /\ AtCopy
    /\ \E present \in SUBSET (1 .. MaxTables) :
       \E content \in [1 .. MaxTables -> RowSeqs] :
          /\ \A k \in 1 .. MaxTables :
                \/ k \in present /\ TableOrder[k] # "sqlite_sequence"
                \/ content[k] = << >>
          /\ old_tables = [p \in ProjectIds |->
                IF p = 1 THEN SourceTables(MaxTables, present, content)
                ELSE OldDbTables]

NextCopy ==
    \/ CopyList
    \/ CopySchema
    \/ CopyCreateTable
    \/ CopySelect
    \/ CopyInsert

SpecCopy == InitCopy /\ [][NextCopy]_vars

\* the copy of a source database of one table of n rows, numbered in the
\* order SELECT * returns them
InitBatch ==
    /\ AtCopy
    /\ \E n \in 0 .. MaxBatchRows :
          old_tables = [p \in ProjectIds |->
              IF p = 1
              THEN << [name |-> "t1", columns |-> << "c1", "c2" >>,
                       rows |-> [k \in 1 .. n |-> << "t1", k >>]] >>
              ELSE OldDbTables]

SpecBatch == InitBatch /\ [][NextCopy]_vars

\* ----------------------------------------------- fix_stale_deployments.py
\* deployments.id, in the order of created_at
DeploymentIds == 1 .. NumDeployments

\* NOW(), and a time before the script ran
Now == << "at", "now" >>
Then == << "at", "then" >>
UrlOf(id) == << "url" >> \o id

\* the projects and deployments tables before the script runs
InitFix ==
    /\ MigrateInit
    /\ dbs = { }
    /\ \A id \in Ids : projects[id].turso_db_url = NULL
    /\ \E status \in [Ids -> {"live", "not_deployed"}] :
       \E last \in [Ids -> {NULL, Then}] :
          /\ \A id \in Ids : status[id] # "live" => last[id] = NULL
          /\ project_rows = [id \in Ids |->
                [deployment_status |-> status[id],
                 deployment_url |-> IF status[id] = "live" THEN UrlOf(id) ELSE NULL,
                 last_deployed_at |-> last[id]]]
    /\ \E of \in [DeploymentIds -> Ids] :
       \E status \in [DeploymentIds -> {"in_progress", "success", "failed"}] :
          deployments = [d \in DeploymentIds |->
              [project_id |-> of[d],
               status |-> status[d],
               completed_at |-> IF status[d] = "in_progress" THEN NULL ELSE Then,
               deployment_url |-> IF status[d] = "success" THEN UrlOf(of[d]) ELSE NULL]]
    /\ fix_pc = "idle"
    /\ fix_project_id = NULL
    /\ fix_projects = << >>
    /\ fix_p = 0
    /\ in_progress_deployments = << >>
    /\ fix_d = 0
    /\ tx = deployments
    /\ fix_updated = 0
    /\ fix_rerun = FALSE

\* WHERE p.deployment_status = 'live' without the condition on the status
LiveProjectsAnyStatus(arg) ==
    { id \in Ids : arg = NULL \/ id = arg }

\* SELECT ... FROM projects p WHERE [p.id = %s AND] p.deployment_status = 'live'
LiveProjects(arg) ==
    { id \in Ids :
        /\ project_rows[id].deployment_status = "live"
        /\ arg = NULL \/ id = arg }

\* the orders the rows of a SELECT without ORDER BY can come in
Orders(S) ==
    { f \in [1 .. Cardinality(S) -> S] :
        \A a, b \in 1 .. Cardinality(S) : f[a] = f[b] => a = b }

\* SELECT id ... FROM deployments WHERE project_id = %s AND status =
\* 'in_progress' ORDER BY created_at DESC, as the transaction sees the table
RECURSIVE InProgress(_, _)
InProgress(proj_id, d) ==
    IF d = 0 THEN << >>
    ELSE IF tx[d].project_id = proj_id /\ tx[d].status = "in_progress"
         THEN << d >> \o InProgress(proj_id, d - 1)
         ELSE InProgress(proj_id, d - 1)

\* COALESCE(%s, NOW())
Coalesce(value, default) == IF value # NULL THEN value ELSE default

\* the project of the loop
FixCur == fix_projects[fix_p]

\* `except Exception`: sys.exit(1); the open transaction is lost, and so is
\* the memory of the process
FixExit ==
    /\ fix_pc' = "exited"
    /\ tx' = deployments
    /\ fix_project_id' = NULL
    /\ fix_projects' = << >>
    /\ fix_p' = 0
    /\ in_progress_deployments' = << >>
    /\ fix_d' = 0
    /\ fix_updated' = 0
    /\ fix_rerun' = FALSE
    /\ UNCHANGED deployments

\* a step inside a run: the argument stays
FixInside == UNCHANGED << fix_project_id, fix_rerun >>

\* the loop over projects moves on, or the script closes and is done
FixNextProject ==
    /\ in_progress_deployments' = << >>
    /\ fix_d' = 0
    /\ IF fix_p = Len(fix_projects)
       THEN fix_pc' = "done" /\ fix_p' = 0 /\ fix_projects' = << >>
       ELSE fix_pc' = "select" /\ fix_p' = fix_p + 1 /\ UNCHANGED fix_projects

\* fix_stale_deployments up to the loop: DATABASE_URL, connect, the projects
FixStart ==
    /\ fix_pc \in {"idle", "done", "exited"}
    /\ \/ \* DATABASE_URL missing, or connect or the query raises
          FixExit
       \/ /\ fix_updated' = 0
          /\ in_progress_deployments' = << >>
          /\ fix_d' = 0
          /\ tx' = deployments
          /\ \E arg \in {NULL} \cup Ids \cup { IdOf(0) } :
                /\ fix_project_id' = arg
                /\ fix_rerun' = (fix_pc = "done" /\ fix_project_id \in {NULL, arg})
                /\ \E order \in Orders(LiveProjects(arg)) :
                      IF order = << >>
                      THEN \* 'No projects found': return
                           fix_pc' = "done" /\ fix_projects' = << >> /\ fix_p' = 0
                      ELSE /\ fix_projects' =
                                [k \in 1 .. Len(order) |->
                                   [proj_id |-> order[k],
                                    url |-> project_rows[order[k]].deployment_url,
                                    last_deployed |->
                                        project_rows[order[k]].last_deployed_at]]
                           /\ fix_p' = 1
                           /\ fix_pc' = "select"
          /\ UNCHANGED deployments
    /\ UNCHANGED project_rows
    /\ UNCHANGED migvars

\* the SELECT of the project's in_progress deployments
FixSelect ==
    /\ fix_pc = "select"
    /\ \/ FixExit
       \/ LET found == InProgress(FixCur.proj_id, NumDeployments)
          IN  /\ IF found = << >>
                 THEN FixNextProject
                 ELSE /\ in_progress_deployments' = found
                      /\ fix_d' = 1
                      /\ fix_pc' = "update"
                      /\ UNCHANGED << fix_projects, fix_p >>
              /\ UNCHANGED << deployments, tx, fix_updated >>
              /\ FixInside
    /\ UNCHANGED project_rows
    /\ UNCHANGED migvars

\* the UPDATE of one deployment, inside the transaction
FixUpdate ==
    /\ fix_pc = "update"
    /\ \/ FixExit
       \/ /\ tx' = [tx EXCEPT ![in_progress_deployments[fix_d]] =
                      [@ EXCEPT !.status = "success",
                                !.completed_at = Coalesce(FixCur.last_deployed, Now),
                                !.deployment_url = FixCur.url]]
          /\ IF fix_d = Len(in_progress_deployments)
             THEN fix_pc' = "commit" /\ UNCHANGED fix_d
             ELSE fix_d' = fix_d + 1 /\ UNCHANGED fix_pc
          /\ UNCHANGED << deployments, fix_projects, fix_p, in_progress_deployments,
                          fix_updated >>
          /\ FixInside
    /\ UNCHANGED project_rows
    /\ UNCHANGED migvars

\* conn.commit() for the project
FixCommit ==
    /\ fix_pc = "commit"
    /\ \/ FixExit
       \/ /\ deployments' = tx
          /\ fix_updated' = fix_updated + Len(in_progress_deployments)
          /\ FixNextProject
          /\ FixInside
          /\ UNCHANGED tx
    /\ UNCHANGED project_rows
    /\ UNCHANGED migvars

NextFix ==
    \/ FixStart
    \/ FixSelect
    \/ FixUpdate
    \/ FixCommit

SpecFix == InitFix /\ [][NextFix]_vars

\* ------------------------------------------- a second client at work
CopyPcs == {"copy", "copy_schema", "copy_create", "copy_select", "copy_insert"}

\* somebody deletes the old database of the project being migrated, between
\* the existence check (line 233) and the delete (line 284)
ExternalDeleteDb ==
    /\ pc \in {"create_db", "create_token", "update", "delete"} \cup CopyPcs
    /\ old_db_name(Cur.slug) \in dbs
    /\ dbs' = dbs \ { old_db_name(Cur.slug) }
    /\ UNCHANGED << projects, new_tables, pc, dry_run, fetched, i, success_count,
                    skip_count, fail_count, plans, mp, cp, unit, completed,
                    old_tables, env >>
    /\ UNCHANGED fixvars

\* somebody drops a table of the old database while it is being copied
\* (SQLite does not let sqlite_sequence be dropped)
ExternalDropTable ==
    /\ pc \in CopyPcs
    /\ \E k \in 1 .. Len(old_tables[Cur.slug[2]]) :
          /\ old_tables[Cur.slug[2]][k].name # "sqlite_sequence"
          /\ old_tables' = [old_tables EXCEPT ![Cur.slug[2]] =
                 SubSeq(@, 1, k - 1) \o SubSeq(@, k + 1, Len(@))]
    /\ UNCHANGED << dbs, projects, new_tables, pc, dry_run, fetched, i, success_count,
                    skip_count, fail_count, plans, mp, cp, unit, completed, env >>
    /\ UNCHANGED fixvars

\* a fleet of projects none of which has been migrated
LegacyInit ==
    /\ Init
    /\ dbs = { OldName(p) : p \in ProjectIds }
    /\ \A p \in ProjectIds : projects[IdOf(p)].turso_db_url = Hostname(OldName(p))

\* one run of the script, from its start to its end, with the second client
NextExternal ==
    \/ pc = "idle" /\ Start
    \/ CheckOld
    \/ CheckNew
    \/ CreateDb
    \/ CreateToken
    \/ CopyList
    \/ CopySchema
    \/ CopyCreateTable
    \/ CopySelect
    \/ CopyInsert
    \/ UpdateRecord
    \/ DeleteOld
    \/ Summary
    \/ ExternalDeleteDb
    \/ ExternalDropTable

SpecExternal == LegacyInit /\ [][NextExternal]_vars

TypeOK ==
    /\ dbs \subseteq AllNames
    /\ pc \in Stopped \cup {"check_old", "check_new", "create_db", "create_token",
                "copy", "copy_schema", "copy_create", "copy_select", "copy_insert",
                "update", "delete", "summary"}
    /\ success_count + skip_count + fail_count <= NumProjects

\* ------------------------------------------------------------ properties
PathPcs == {"create_db", "create_token", "copy", "copy_schema", "copy_create",
            "copy_select", "copy_insert", "update", "delete"}

\* the unit in view: its project, its two database names, its fetched tuple
UnitId == unit.project_id
UnitOld == old_db_name(projects[UnitId].slug)
UnitNew == new_db_name(UnitId)
UnitTuple ==
    fetched[CHOOSE k \in 1 .. Len(fetched) : fetched[k].project_id = UnitId]
Checked == unit.project_id # NULL /\ unit.quadrant # << >>
InFlight == pc \in PathPcs /\ Cur.project_id = UnitId /\ unit.outcome = "none"

C2_IdempotentRerun ==
    /\ pc \in PathPcs => ~completed[Cur.project_id]
    /\ (Checked /\ completed[UnitId]) =>
          \/ unit.outcome = "complete" /\ unit.quadrant = << TRUE, FALSE >>
          \/ unit.outcome = "already_migrated" /\ unit.calls = NoCalls

RecordIsNew ==
    /\ projects[UnitId].turso_db_url = Hostname(UnitNew)
    /\ projects[UnitId].turso_db_token = Jwt(UnitNew)
RecordAsFetched ==
    /\ projects[UnitId].turso_db_url = UnitTuple.old_url
    /\ projects[UnitId].turso_db_token = UnitTuple.old_token

\* the fetched projects whose old database exists and whose new one does not
Legacy ==
    { k \in 1 .. Len(fetched) :
        /\ old_db_name(fetched[k].slug) \in dbs
        /\ new_db_name(fetched[k].project_id) \notin dbs }
\* the fetched projects that are already migrated
Migrated ==
    { k \in 1 .. Len(fetched) :
        /\ old_db_name(fetched[k].slug) \notin dbs
        /\ new_db_name(fetched[k].project_id) \in dbs }

C5_FleetIsolation ==
    /\ pc # "uncaught"
    /\ pc = "done" =>
          /\ i = Len(fetched) + 1
          /\ success_count + skip_count + fail_count = Len(fetched)

\* C6: strict order with hard stops.  In a unit each of create, token,
\* update and delete is issued at most once; the token request follows a
\* successful create, data-plane writes and the update follow the token,
\* the delete follows a successful update; nothing is issued after a failed
\* create, token request or update; the old database is gone only if the
\* record was updated, and the record is updated only if the new database
\* was created.
C6_StrictOrder ==
    Checked =>
        LET c == unit.calls
            line == unit.outcome
        IN  /\ c.create <= 1 /\ c.token <= 1 /\ c.update <= 1 /\ c.delete <= 1
            /\ c.token >= 1 => c.create = 1 /\ UnitNew \in dbs
            /\ c.write >= 1 => c.token = 1 /\ line # "failed_token"
            /\ c.update >= 1 => c.token = 1 /\ line # "failed_token"
                                /\ unit.copied # "none"
            /\ c.delete >= 1 => c.update = 1 /\ line # "failed_update" /\ RecordIsNew
            /\ line = "failed_create" =>
                  c = [NoCalls EXCEPT !.create = 1] /\ RecordAsFetched
            /\ line = "failed_token" =>
                  c = [NoCalls EXCEPT !.create = 1, !.token = 1] /\ RecordAsFetched
            /\ line = "failed_update" =>
                  c.delete = 0 /\ UnitOld \in dbs /\ RecordAsFetched
            /\ (unit.quadrant[1] /\ UnitOld \notin dbs) => c.update = 1 /\ RecordIsNew
            /\ ~RecordAsFetched => c.create = 1 /\ c.token = 1 /\ UnitNew \in dbs

C6_Witness ==
    /\ Checked
    /\ unit.outcome = "failed_update"
    /\ unit.calls.create = 1
    /\ unit.calls.write >= 1
    /\ unit.calls.delete = 0
    /\ UnitOld \in dbs

\* C7: a failure in step 1, the database POST or the token POST, ends the
\* unit as failed with nothing created and nothing further issued: the new
\* database does not exist and the old one does.
C7_CreateFailureCreatesNothing ==
    (Checked /\ unit.outcome \in {"failed_create", "failed_token"}) =>
        /\ UnitNew \notin dbs
        /\ UnitOld \in dbs
        /\ unit.calls.write = 0 /\ unit.calls.update = 0 /\ unit.calls.delete = 0

\* C8: a failed catalog update and a failed delete of the old database are
\* reported as failed, and both databases then exist.
C8_LateFailureReported ==
    Checked =>
        /\ unit.outcome = "failed_update" =>
              ~ReturnValue(unit.outcome) /\ UnitOld \in dbs /\ UnitNew \in dbs
        /\ (unit.calls.delete >= 1 /\ UnitOld \in dbs) =>
              unit.outcome \in Failures /\ UnitNew \in dbs

\* C9: a copy that returned False does not end the unit.  The update is the
\* next step, the delete follows a successful update, and unless the update
\* or the delete raises the unit ends 'Migration complete', returned True,
\* with the record holding the new endpoint and credential and the delete
\* of the old database issued.
C9_CopyFailureContinues ==
    (Checked /\ unit.copied = "no") =>
        \/ InFlight /\ pc = "update" /\ unit.calls.update = 0
        \/ InFlight /\ pc = "delete" /\ RecordIsNew
        \/ unit.outcome = "failed_update"
        \/ unit.outcome = "failed_delete" /\ RecordIsNew
        \/ /\ unit.outcome = "complete"
           /\ ReturnValue(unit.outcome)
           /\ RecordIsNew
           /\ unit.calls.update = 1
           /\ unit.calls.delete = 1

C9_Witness ==
    /\ Checked
    /\ unit.copied = "no"
    /\ unit.outcome = "complete"
    /\ RecordIsNew
    /\ UnitOld \notin dbs
    /\ success_count >= 1

\* no table was created twice and no source row was inserted twice into
\* the new database of any project, over all runs
NoDuplicateRows ==
    \A id \in Ids :
        LET tabs == new_tables[id]
        IN  \A k \in 1 .. Len(tabs) :
              /\ \A j \in 1 .. Len(tabs) : tabs[j].name = tabs[k].name => j = k
              /\ \A a, b \in 1 .. Len(tabs[k].rows) :
                    tabs[k].rows[a] = tabs[k].rows[b] => a = b
              /\ \A a \in 1 .. Len(tabs[k].rows) :
                    \E b \in 1 .. Len(RowsOf(OldDbTables, tabs[k].name)) :
                        RowsOf(OldDbTables, tabs[k].name)[b] = tabs[k].rows[a]

\* a step changes a database, the record or the copied data of project id
Touched(id) ==
    \/ (old_db_name(projects[id].slug) \in dbs)' # (old_db_name(projects[id].slug) \in dbs)
    \/ (new_db_name(id) \in dbs)' # (new_db_name(id) \in dbs)
    \/ projects'[id] # projects[id]
    \/ new_tables'[id] # new_tables[id]

\* C10: crash, partial failure and rerun neither corrupt nor duplicate.
\* Over any sequence of runs, failures and process terminations no source
\* row is inserted twice into a project's new database, and a project's
\* databases, record and copied data change only inside a unit that found
\* (old exists, new absent) in a run without dry-run: a termination changes
\* nothing, projects not being processed are untouched, and a project found
\* in any other quadrant stays as it is.
C10_CrashRerunSafety ==
    [][ /\ NoDuplicateRows'
        /\ \A id \in Ids :
              Touched(id) =>
                 /\ pc \in PathPcs
                 /\ Cur.project_id = id
                 /\ UnitId = id
                 /\ unit.quadrant = << TRUE, FALSE >>
                 /\ ~dry_run ]_vars

C10_Witness ==
    /\ Checked
    /\ unit.outcome = "naming_conflict"
    /\ new_tables[UnitId] # << >>
    /\ Len(new_tables[UnitId][1].rows) >= 1
    /\ projects[UnitId].turso_db_url = Hostname(UnitOld)
    /\ ~completed[UnitId]

\* C11: deleting a database that is already absent is a success.  When the
\* control plane answers the DELETE of the old database with 404,
\* delete_turso_db prints no warning and raises nothing, and the unit goes
\* on to 'Migration complete': it returns True and is counted successful.
C11_DeleteAbsentIsSuccess ==
    (Checked /\ unit.delete_status = 404) =>
        /\ unit.delete_said = "nothing"
        /\ unit.outcome = "complete"
        /\ ReturnValue(unit.outcome)
        /\ completed[UnitId]
        /\ success_count >= 1
        /\ UnitOld \notin dbs

C11_Witness ==
    /\ Checked
    /\ unit.delete_status = 404
    /\ unit.calls.delete = 1
    /\ unit.outcome = "complete"
    /\ RecordIsNew
    /\ pc = "done"

\* C12: the summary's failure count.  A unit that ended 'Migration failed'
\* is counted in fail_count, and when the run ends the total is the sum of
\* the successful, skipped and failed counts.
C12_FailureCounted ==
    /\ (Checked /\ unit.outcome \in Failures) => fail_count >= 1
    /\ pc = "done" => Len(fetched) = success_count + skip_count + fail_count

\* the source and the destination of the unit's copy
UnitSource == old_tables[UnitTuple.slug[2]]
UnitDest == new_tables[UnitId]

\* C13: copy fidelity.  When copy_turso_data returned True for an empty
\* destination, the destination has no table sqlite_sequence, exactly one
\* table for each other table of the source and no further table, and each
\* has the columns of its source table in the same order and the same rows
\* in the same order, none missing and none twice: a source table without
\* rows is a table without rows.
C13_CopyFidelity ==
    (pc = "update" /\ unit.copied = "yes") =>
        /\ \A d \in 1 .. Len(UnitDest) :
              /\ UnitDest[d].name # "sqlite_sequence"
              /\ \E s \in 1 .. Len(UnitSource) : UnitSource[s].name = UnitDest[d].name
        /\ \A s \in 1 .. Len(UnitSource) :
              UnitSource[s].name # "sqlite_sequence" =>
                 /\ Cardinality({ d \in 1 .. Len(UnitDest) :
                                    UnitDest[d].name = UnitSource[s].name }) = 1
                 /\ \A d \in 1 .. Len(UnitDest) :
                       UnitDest[d].name = UnitSource[s].name =>
                          /\ UnitDest[d].columns = UnitSource[s].columns
                          /\ UnitDest[d].rows = UnitSource[s].rows

C13_Witness ==
    /\ pc = "update"
    /\ unit.copied = "yes"
    /\ \E s \in 1 .. Len(UnitSource) : UnitSource[s].name = "sqlite_sequence"
    /\ \E s \in 1 .. Len(UnitSource) :
          /\ UnitSource[s].name = "t1"
          /\ UnitSource[s].rows = << << "b", "a" >>, << "b", "a" >> >>
    /\ \E d \in 1 .. Len(UnitDest) :
          UnitDest[d].name = "t2" /\ UnitDest[d].rows = << >>
    /\ Len(UnitDest) = 2

\* C14: a listed table whose creation statement cannot be retrieved.  When
\* the schema query of a listed table returned no row, copy_turso_data does
\* not return True.
C14_SchemaFetchFails ==
    (Checked /\ unit.no_schema) => unit.copied # "yes"

\* the step is an insert that the destination rejected
InsertFailed ==
    /\ pc = "copy_insert"
    /\ unit'.calls.write = unit.calls.write + 1
    /\ new_tables' = new_tables

\* the tables of tabs named in names, in the order of names
Named(tabs, names) ==
    [k \in 1 .. Len(names) |->
        tabs[CHOOSE s \in 1 .. Len(tabs) : tabs[s].name = names[k]]]

\* C15: a failed row insert.  When the insert of row r of the t-th listed
\* table fails, copy_turso_data returns False at once: the destination keeps
\* the tables before t in full and rows 1 .. r-1 of table t (no roll-back),
\* and has no later row of t and no later table.
C15_InsertFailureStopsCopy ==
    [][ InsertFailed =>
          /\ pc' = "update"
          /\ unit'.copied = "no"
          /\ ~mp'.copy_success
          /\ Len(UnitDest') = cp.t
          /\ \A k \in 1 .. cp.t - 1 :
                UnitDest'[k] = Named(UnitSource, cp.tables)[k]
          /\ UnitDest'[cp.t].name = cp.tables[cp.t]
          /\ UnitDest'[cp.t].rows =
                SubSeq(Named(UnitSource, cp.tables)[cp.t].rows, 1, cp.r - 1) ]_vars

C15_Witness ==
    /\ pc = "update"
    /\ unit.copied = "no"
    /\ Len(UnitSource) = 3
    /\ Len(UnitDest) = 1
    /\ UnitDest[1].name = "t1"
    /\ Len(UnitDest[1].rows) = 1
    /\ Len(UnitSource[1].rows) = 2
    /\ unit.calls.write = 3

\* what a copy of tabs in full is
ExpectedCopy(tabs) ==
    LET Kept(t) == t.name # "sqlite_sequence" IN SelectSeq(tabs, Kept)

\* 'Migration complete' was printed for project id, its old database is
\* deleted, and its new database does not hold all of the old one's data
IncompleteCopy(id) ==
    /\ completed[id]
    /\ new_db_name(id) \in dbs
    /\ old_db_name(projects[id].slug) \notin dbs
    /\ new_tables[id] # ExpectedCopy(old_tables[id[2]])

\* the script is not in the migration path of project id, and the unit in
\* view, if it is of project id, is the one that completed it or one that
\* ended 'already migrated' without a call
NotCopiedAgain(id) ==
    IncompleteCopy(id) =>
        /\ ~(pc \in PathPcs /\ Cur.project_id = id)
        /\ (Checked /\ UnitId = id) =>
              \/ /\ unit.outcome = "complete"
                 /\ unit.quadrant = << TRUE, FALSE >>
              \/ /\ unit.outcome = "already_migrated"
                 /\ unit.quadrant = << FALSE, TRUE >>
                 /\ unit.calls = NoCalls

C17_MutatedOnlyWhenCompleted ==
    (Checked /\ unit.outcome \notin {"none", "complete"}) =>
        /\ RecordAsFetched
        /\ unit.outcome # "failed_update" => unit.calls.update = 0

\* how a unit that has ended stands to the record of its project
RecordWritten ==
    (Checked /\ unit.outcome # "none") =>
        IF unit.outcome \in {"complete", "failed_delete"}
        THEN unit.calls.update = 1 /\ RecordIsNew
        ELSE /\ RecordAsFetched
             /\ unit.calls.update = IF unit.outcome = "failed_update" THEN 1 ELSE 0

\* C17, amended: a record is written by the one successful call of
\* update_project_turso_credentials of a unit of its project and by nothing
\* else.  The call is made once in a unit that ends 'Migration complete'
\* and once in a unit whose delete of the old database raises, which ends
\* failed with the record written; it is made once and writes nothing in a
\* unit that fails at the update, and is not made in units that end already
\* migrated, skipped or as a dry-run plan.  The write sets turso_db_url and
\* turso_db_token together to the endpoint and credential of liteshow-{id},
\* in the row of that project alone, and happens once per project over all
\* runs: the new database was created in the same unit and is never deleted.
C17_RecordMutation ==
    [][ /\ \A id \in Ids :
              projects'[id] # projects[id] =>
                 /\ pc = "update"
                 /\ Cur.project_id = id
                 /\ ~dry_run
                 /\ unit.calls.create = 1
                 /\ unit.calls.update = 0
                 /\ unit'.calls.update = 1
                 /\ projects'[id] =
                       [projects[id] EXCEPT
                          !.turso_db_url = Hostname(new_db_name(id)),
                          !.turso_db_token = Jwt(new_db_name(id))]
                 /\ \A other \in Ids \ {id} : projects'[other] = projects[other]
        /\ \A id \in Ids : new_db_name(id) \in dbs => new_db_name(id) \in dbs'
        /\ RecordWritten' ]_vars

C17_Witness ==
    /\ Checked
    /\ unit.outcome = "failed_delete"
    /\ unit.calls.update = 1
    /\ RecordIsNew
    /\ ~RecordAsFetched
    /\ UnitOld \in dbs

\* C18: a missing TURSO_API_TOKEN or DATABASE_URL is fatal at startup.  A
\* run started without one of them ends at once with sys.exit(1): no project
\* was fetched, no unit was begun, no call was issued, and no database,
\* record or copied table has changed.
C18_MissingConfigIsFatal ==
    [][ (~env'.TURSO_API_TOKEN \/ ~env'.DATABASE_URL) =>
          /\ pc' = "exited"
          /\ fetched' = << >>
          /\ i' = 0
          /\ unit' = NoUnit
          /\ mp' = NoLocals
          /\ success_count' + skip_count' + fail_count' = 0
          /\ dbs' = dbs
          /\ projects' = projects
          /\ new_tables' = new_tables ]_vars

C18_Witness ==
    /\ pc = "exited"
    /\ env.TURSO_API_TOKEN
    /\ ~env.DATABASE_URL
    /\ \E p \in ProjectIds : OldName(p) \in dbs /\ NewName(p) \notin dbs
    /\ unit = NoUnit

\* C19: projects are independent units.  What happens to a project does not
\* depend on its place in the list: in a run that has ended without being
\* killed, every fetched project has been processed, whichever project a
\* request failed for, so that any other order of the list would have left
\* the same databases, records and outcomes.
C19_TenantIndependence ==
    (pc \in {"done", "uncaught"}) =>
        \A k \in 1 .. Len(fetched) :
            \/ k < i
            \/ k = i /\ pc = "uncaught"

\* deployment d is in_progress, its project is live, and the project is the
\* one named by arg if arg names one
Stale(d, arg) ==
    /\ deployments[d].status = "in_progress"
    /\ project_rows[deployments[d].project_id].deployment_status = "live"
    /\ arg = NULL \/ deployments[d].project_id = arg

\* C20: what fix_stale_deployments changes.  A step of the script leaves
\* every project row as it is and changes a deployment row only if the row
\* is in_progress and of a live project (of the project given as argument,
\* if one is given), and then to status success, of the same project; when
\* the script ends with 'Done' (or 'No projects found') no such row is left
\* in_progress; and a run that follows a run ended so, with the same
\* argument or after a run without argument, issues no UPDATE.
C20_FixStaleFrame ==
    [][ /\ project_rows' = project_rows
        /\ projects' = projects
        /\ \A d \in DeploymentIds :
              deployments'[d] # deployments[d] =>
                 /\ Stale(d, fix_project_id)
                 /\ deployments'[d].status = "success"
                 /\ deployments'[d].project_id = deployments[d].project_id
        /\ fix_pc' = "done" =>
              \A d \in DeploymentIds : ~Stale(d, fix_project_id)'
        /\ fix_rerun' =>
              /\ fix_pc' \notin {"update", "commit"}
              /\ fix_updated' = 0
              /\ tx' = deployments' ]_vars

C20_Witness ==
    /\ fix_pc = "done"
    /\ fix_rerun
    /\ fix_project_id = NULL
    /\ fix_updated = 0
    /\ \E d \in DeploymentIds :
          deployments[d].status = "success" /\ deployments[d].completed_at = Now
    /\ \E d \in DeploymentIds :
          /\ deployments[d].status = "in_progress"
          /\ project_rows[deployments[d].project_id].deployment_status # "live"

\* the source's tables that are to be copied, in the order it lists them
Listed == ExpectedCopy(UnitSource)

\* C21: table by table, schema before rows.  Every step of a copy that
\* changes the destination either creates the next table of the source's
\* listing, without rows and with the columns of the source's creation
\* statement, when every table listed before it is in the destination with
\* all its rows; or inserts the next row of the table created last.  So a
\* table exists before its first row, and no row of a table is inserted
\* before all rows of the tables listed before it.
C21_TableByTable ==
    [][ UnitDest' # UnitDest =>
          LET n == Len(UnitDest) IN
          \/ /\ Len(UnitDest') = n + 1
             /\ n + 1 <= Len(Listed)
             /\ SubSeq(UnitDest', 1, n) = UnitDest
             /\ \A k \in 1 .. n : UnitDest[k] = Listed[k]
             /\ UnitDest'[n + 1] = [Listed[n + 1] EXCEPT !.rows = << >>]
          \/ /\ Len(UnitDest') = n
             /\ n >= 1
             /\ \A k \in 1 .. n - 1 : UnitDest'[k] = UnitDest[k]
             /\ UnitDest'[n].name = UnitDest[n].name
             /\ UnitDest'[n].columns = UnitDest[n].columns
             /\ Len(UnitDest[n].rows) < Len(Listed[n].rows)
             /\ UnitDest'[n].rows =
                   Append(UnitDest[n].rows, Listed[n].rows[Len(UnitDest[n].rows) + 1])
       ]_vars

C21_Witness ==
    /\ pc = "copy_insert"
    /\ Len(UnitSource) = 3
    /\ Len(Listed) = 2
    /\ Len(UnitDest) = 2
    /\ UnitDest[1] = Listed[1]
    /\ Len(UnitDest[1].rows) = 2
    /\ Len(Listed[2].rows) = 2
    /\ Len(UnitDest[2].rows) = 1

\* C22: batching neither drops, duplicates nor reorders rows.  For a table
\* of n rows, n from 0 over 99, 100, 101 and 200 to MaxBatchRows, the rows
\* go to the inserts one by one in the order SELECT * returned them: when
\* the r-th insert is due the destination holds rows 1 .. r-1 and r-1
\* inserts were issued, and a copy that returned True has issued n inserts
\* and left the n rows in the destination in the source's order.
C22_BatchingKeepsRows ==
    /\ pc = "copy_insert" =>
          /\ cp.rows = Listed[1].rows
          /\ UnitDest[1].rows = SubSeq(Listed[1].rows, 1, cp.r - 1)
          /\ unit.calls.write = 1 + (cp.r - 1)
    /\ (pc = "update" /\ unit.copied = "yes") =>
          /\ UnitDest[1].rows = Listed[1].rows
          /\ unit.calls.write = 1 + Len(Listed[1].rows)

C22_Witness ==
    /\ pc = "update"
    /\ unit.copied = "yes"
    /\ Len(Listed[1].rows) = 2 * batch_size + 1
    /\ UnitDest[1].rows[batch_size + 1] = << "t1", batch_size + 1 >>
    /\ Len(UnitDest[1].rows) = 2 * batch_size + 1

\* C23: dry run takes the branch the real run takes.  For a project whose
\* two existence checks returned, outside the quadrant (old exists, new
\* absent) the closing line is the one the other mode would have printed for
\* the same two answers and stored location, with the same return value and
\* no mutating call; inside that quadrant the two modes part: the dry run
\* ends with its plan, counted as a success, without a create, token, write,
\* update or delete, where the real run enters the migration path.
C23_DryRunSameBranch ==
    Checked =>
        LET q == unit.quadrant
            other == Decide(q[1], q[2], UnitTuple.old_url, ~dry_run)
        IN  /\ q # << TRUE, FALSE >> =>
                /\ unit.outcome = other
                /\ ReturnValue(unit.outcome) = ReturnValue(other)
                /\ unit.calls = NoCalls
            /\ q = << TRUE, FALSE >> =>
                IF dry_run
                THEN /\ other = "migrate"
                     /\ unit.outcome = "would_migrate"
                     /\ ReturnValue(unit.outcome)
                     /\ unit.calls = NoCalls
                ELSE /\ other = "would_migrate"
                     /\ \/ InFlight
                        \/ unit.outcome \in Failures \cup {"complete"}

C23_Witness ==
    /\ dry_run
    /\ Checked
    /\ unit.quadrant = << TRUE, TRUE >>
    /\ unit.outcome = "naming_conflict"
    /\ unit.calls = NoCalls
    /\ skip_count >= 1

\* the stored location of project id is that of its old-named or of its
\* new-named database, and that database exists
Refers(id) ==
    LET url == projects[id].turso_db_url
        old == old_db_name(projects[id].slug)
    IN  \/ url = Hostname(old) /\ old \in dbs
        \/ url = Hostname(new_db_name(id)) /\ new_db_name(id) \in dbs

\* C24: the record never dangles.  No step of the script (a step of the
\* migration path, a failure, a crash, the start of a rerun) takes a project
\* whose stored location is that of its existing old-named database, or the
\* endpoint of its existing new-named database, to a state where the
\* location is anything else or the database it names is gone; so a project
\* that starts at its old-named database stays so in every reachable state.
C24_RecordNeverDangles ==
    [][ \A id \in Ids : Refers(id) => Refers(id)' ]_vars

C24_Witness ==
    /\ pc = "crashed"
    /\ \E id \in Ids :
          /\ projects[id].turso_db_url = Hostname(new_db_name(id))
          /\ new_tables[id] # << >>
          /\ old_db_name(projects[id].slug) \in dbs
          /\ new_db_name(id) \in dbs
          /\ ~completed[id]

\* C25: only old-named databases are deleted.  In every step of any
\* sequence of runs, failures and crashes: a new-named database that exists
\* still exists afterwards (nothing created in step 1 is taken back, whatever
\* fails later); a database that disappears is the old-named database of the
\* project in hand; and a DELETE is issued only by step 4 of a unit that
\* found (old exists, new absent) in a run without dry_run, for the
\* old-named database of its project.
C25_OnlyOldDeleted ==
    [][ /\ \A id \in Ids : new_db_name(id) \in dbs => new_db_name(id) \in dbs'
        /\ \A n \in dbs \ dbs' :
              /\ pc = "delete"
              /\ n = old_db_name(Cur.slug)
        /\ unit'.calls.delete > unit.calls.delete =>
              /\ pc = "delete"
              /\ ~dry_run
              /\ unit.quadrant = << TRUE, FALSE >>
              /\ unit.calls.delete = 0
              /\ unit'.delete_name = old_db_name(Cur.slug)
        /\ unit'.delete_name # NULL =>
              /\ unit'.calls.delete = 1
              /\ unit'.delete_name = old_db_name(projects[unit'.project_id].slug)
      ]_vars

C25_Witness ==
    /\ Checked
    /\ unit.quadrant = << TRUE, FALSE >>
    /\ unit.delete_name = UnitOld
    /\ unit.delete_status = 200
    /\ UnitOld \notin dbs
    /\ UnitNew \in dbs
    /\ \E id \in Ids :
          /\ id # UnitId
          /\ new_db_name(id) \in dbs
          /\ old_db_name(projects[id].slug) \in dbs
          /\ new_tables[id] # << >>

====
